---- MODULE Spec2Model ----
(***************************************************************************)
(* Model of the marine-migration dashboard (src/app.py): the range         *)
(* resolver get_time_range, the upstream fetch fetch_data and the response *)
(* normalizer process_api_data.                                            *)
(*                                                                         *)
(* Encoding of data.                                                       *)
(*   - A sensor reading is a natural number; the null marker (Python None, *)
(*     NaN in a DataFrame column) is Null.                                 *)
(*   - A timestamp string of the payload is its UTC hour count since       *)
(*     2024-01-01T00:00; BadTime is a string pandas cannot parse.  The     *)
(*     flag "zoned" of a block says whether its strings end in "Z".        *)
(*   - A zone-aware timestamp of the table is Stamp(instant, offset).      *)
(*   - A JSON object is a record whose has* fields say which keys exist.   *)
(*   - A dict / DataFrame is a sequence of [name, cells] in insertion      *)
(*     order.                                                              *)
(***************************************************************************)
EXTENDS Integers, Sequences, FiniteSets, TLC

VARIABLES
    data,       \* the payload object returned by fetch_data (None or a dict)
    arg,        \* history: the payload as it was when process_api_data was called
    df,         \* the table process_api_data returned
    messages,   \* user-visible messages emitted so far (st.error, st.warning)
    raised,     \* TRUE when an exception escaped the last call
    option,     \* the time-window selector
    now,        \* the instant read by datetime.utcnow(), seconds since 2023-12-13T00:00
    range,      \* the pair returned by get_time_range
    requests,   \* the HTTP requests issued, in order
    upstream,   \* history: what the API answered to the requests of the last fetch_data
    fetches,    \* history: the selectors fetch_data was called with, in order
    hasDf,      \* "df" in st.session_state (df is then st.session_state.df)
    clicked,    \* st.sidebar.button("Fetch Data") of the script run
    page,       \* st.sidebar.radio("View", ...) of the script run
    runs,       \* script reruns so far
    pc          \* position of the run

vars ==
    <<data, arg, df, messages, raised, option, now, range, requests, upstream,
      fetches, hasDf, clicked, page, runs, pc>>

\* the session and the widgets of the Streamlit script
session == << hasDf, clicked, page, runs >>

---------------------------------------------------------------------------
(* Bounds of the model *)

MaxBlocks == 2      \* blocks in the primary sensorData list
MaxT == 2           \* entries in a sampleTimes array
MaxNow == 3         \* distinct clock readings

MaxLen == MaxT + 1  \* entries in a values array

---------------------------------------------------------------------------
(* Values *)

Null == 0 - 1
BadTime == 0 - 1

TIME_COLUMN == "Time (Atlantic)"

\* the registry with its last name forgotten
expected_sensors_without_chlorophyll ==
    << "External pH (Dynamic Salinity)",
       "Oxygen Concentration Corrected",
       "Practical Salinity",
       "Temperature",
       "Density",
       "Internal Temperature" >>

expected_sensors ==
    << "External pH (Dynamic Salinity)",
       "Oxygen Concentration Corrected",
       "Practical Salinity",
       "Temperature",
       "Density",
       "Internal Temperature",
       "Chlorophyll" >>

Range(s) == { s[i] : i \in DOMAIN s }

---------------------------------------------------------------------------
(* dict and DataFrame: insertion-ordered columns *)

EmptyDataFrame == << >>

Columns(t) == { t[i].name : i \in DOMAIN t }

HasColumn(t, n) == \E i \in DOMAIN t : t[i].name = n

Column(t, n) == (CHOOSE c \in Range(t) : c.name = n).cells

\* a dict whose assignment moves an existing key to the end
DictSetMovingToEnd(t, n, cells) ==
    Append(SelectSeq(t, LAMBDA c : c.name # n), [name |-> n, cells |-> cells])
\* processed_data[name] = cells : a new key is appended, an existing key keeps
\* its position and takes the new value
DictSet(t, n, cells) ==
    IF HasColumn(t, n)
    THEN [ i \in DOMAIN t |-> IF t[i].name = n THEN [name |-> n, cells |-> cells] ELSE t[i] ]
    ELSE Append(t, [name |-> n, cells |-> cells])

NullColumn(len) == [ i \in 1..len |-> Null ]


---------------------------------------------------------------------------
(* Timestamps: pd.to_datetime, tz_localize(utc), tz_convert(America/Halifax) *)

\* America/Halifax in 2024: daylight time from 10 March 06:00 UTC to
\* 3 November 05:00 UTC (hours since 2024-01-01T00:00Z)
DstStart == 1662
DstEnd == 7373
StandardOffset == 0 - 4
DaylightOffset == 0 - 3

\* a zone that stays on standard time all year
HalifaxOffsetWithoutDst(utc) == StandardOffset
HalifaxOffset(utc) ==
    IF DstStart <= utc /\ utc < DstEnd THEN DaylightOffset ELSE StandardOffset

\* a zone-aware timestamp: its civil hour count and its UTC offset
Stamp(utc, off) == (utc + off) * 100 + (0 - off)
CivilOf(stamp) == stamp \div 100
OffsetOf(stamp) == 0 - (stamp % 100)
InstantOf(stamp) == CivilOf(stamp) - OffsetOf(stamp)

\* pd.to_datetime(time_values): raises on a string it cannot parse; the index
\* is zone-aware (UTC) when the strings carry a zone, zone-naive otherwise
ToDatetime(times, zoned) ==
    IF \E i \in DOMAIN times : times[i] = BadTime
    THEN [ raised |-> TRUE, tz |-> "none", t |-> << >> ]
    ELSE [ raised |-> FALSE,
           tz |-> IF zoned /\ times # << >> THEN "UTC" ELSE "none",
           t |-> times ]

\* utc_times.tz_localize(pytz.utc): the naive readings are taken as UTC instants
TzLocalize(idx) == [ idx EXCEPT !.tz = "UTC" ]

\* utc_times.tz_convert("America/Halifax")
TzConvert(idx) == [ i \in DOMAIN idx.t |-> Stamp(idx.t[i], HalifaxOffset(idx.t[i])) ]

TimeColumn(times, zoned) ==
    LET utc_times == ToDatetime(times, zoned)
        localized == IF utc_times.tz = "none" THEN TzLocalize(utc_times) ELSE utc_times
    IN  [ raised |-> utc_times.raised,
          cells |-> IF utc_times.raised THEN << >> ELSE TzConvert(localized) ]

---------------------------------------------------------------------------
(* process_api_data *)

\* "if not data": None and the empty dict are falsy
Falsy(d) == d.kind = "none" \/ (d.sensorDataKind = "absent" /\ ~d.hasChl)

\* the scan without its break: the sampleTimes of the last block that has one
RECURSIVE ScanTimesLast(_, _)
ScanTimesLast(blocks, i) ==
    IF i > Len(blocks)
    THEN [ raised |-> FALSE, found |-> FALSE, zoned |-> FALSE, times |-> << >> ]
    ELSE IF blocks[i].dataKind = "null"
    THEN [ raised |-> TRUE, found |-> FALSE, zoned |-> FALSE, times |-> << >> ]
    ELSE LET rest == ScanTimesLast(blocks, i + 1) IN
         IF rest.raised \/ rest.found THEN rest
         ELSE IF blocks[i].dataKind = "dict" /\ blocks[i].hasTimes
         THEN [ raised |-> FALSE, found |-> TRUE, zoned |-> blocks[i].zoned,
                times |-> blocks[i].sampleTimes ]
         ELSE rest

\* lines 113-117: the sampleTimes of the first block that has one
RECURSIVE ScanTimes(_, _)
ScanTimes(blocks, i) ==
    IF i > Len(blocks)
    THEN [ raised |-> FALSE, found |-> FALSE, zoned |-> FALSE, times |-> << >> ]
    ELSE IF blocks[i].dataKind = "absent" THEN ScanTimes(blocks, i + 1)
    ELSE IF blocks[i].dataKind = "null"
    THEN [ raised |-> TRUE, found |-> FALSE, zoned |-> FALSE, times |-> << >> ]
    ELSE IF blocks[i].hasTimes
    THEN [ raised |-> FALSE, found |-> TRUE, zoned |-> blocks[i].zoned,
           times |-> blocks[i].sampleTimes ]
    ELSE ScanTimes(blocks, i + 1)

\* iterating "sensorData": null raises TypeError
FindTimeValues(d) ==
    IF d.sensorDataKind = "list" THEN ScanTimes(d.sensorData, 1)
    ELSE [ raised |-> d.sensorDataKind = "null", found |-> FALSE, zoned |-> FALSE,
           times |-> << >> ]

\* values[-T:] in place of values[:T]
TruncateTail(values, T) == SubSeq(values, Len(values) - T + 1, Len(values))

\* lines 133-136: values[:T] builds a new list, values += [None] * k extends
\* the list of the payload in place
Truncate(values, T) == SubSeq(values, 1, T)
Pad(values, T) == values \o NullColumn(T - Len(values))

Aligned(values, T) ==
    IF Len(values) > T THEN Truncate(values, T)
    ELSE IF Len(values) < T THEN Pad(values, T)
    ELSE values

StoredAfter(values, T) ==
    IF Len(values) < T THEN Pad(values, T) ELSE values

\* lines 129-137, one iteration; acc = [raised, pd, blocks]
ProcessSensor(acc, i, T) ==
    LET sensor == acc.blocks[i] IN
    IF sensor.dataKind = "absent" THEN acc
    ELSE IF sensor.dataKind = "null" THEN [ acc EXCEPT !.raised = TRUE ]
    ELSE IF sensor.valuesKind = "absent" THEN acc
    ELSE IF ~sensor.hasName THEN [ acc EXCEPT !.raised = TRUE ]
    ELSE IF sensor.valuesKind = "null" THEN [ acc EXCEPT !.raised = TRUE ]
    ELSE [ acc EXCEPT
             !.pd = DictSet(@, sensor.sensorName, Aligned(sensor.values, T)),
             !.blocks[i].values = StoredAfter(sensor.values, T) ]

RECURSIVE ProcessSensors(_, _, _)
ProcessSensors(acc, i, T) ==
    IF acc.raised \/ i > Len(acc.blocks) THEN acc
    ELSE ProcessSensors(ProcessSensor(acc, i, T), i + 1, T)

\* the supplemental loop filling Chlorophyll only when the primary left it open
ProcessChlorophyllKeepFirst(acc, i, T) ==
    LET sensor == acc.blocks[i] IN
    IF ~(sensor.hasName /\ sensor.sensorName = "Chlorophyll") THEN acc
    ELSE IF sensor.dataKind = "absent" THEN acc
    ELSE IF sensor.dataKind = "null" THEN [ acc EXCEPT !.raised = TRUE ]
    ELSE IF sensor.valuesKind = "absent" THEN acc
    ELSE IF sensor.valuesKind = "null" THEN [ acc EXCEPT !.raised = TRUE ]
    ELSE IF HasColumn(acc.pd, "Chlorophyll") THEN acc
    ELSE [ acc EXCEPT
             !.pd = DictSet(@, "Chlorophyll", Aligned(sensor.values, T)),
             !.blocks[i].values = StoredAfter(sensor.values, T) ]

\* the supplemental loop without its test of the sensor name
ProcessChlorophyllAnyName(acc, i, T) ==
    LET sensor == acc.blocks[i] IN
    IF sensor.dataKind = "absent" THEN acc
    ELSE IF sensor.dataKind = "null" THEN [ acc EXCEPT !.raised = TRUE ]
    ELSE IF sensor.valuesKind = "absent" THEN acc
    ELSE IF sensor.valuesKind = "null" THEN [ acc EXCEPT !.raised = TRUE ]
    ELSE [ acc EXCEPT
             !.pd = DictSet(@, "Chlorophyll", Aligned(sensor.values, T)),
             !.blocks[i].values = StoredAfter(sensor.values, T) ]

\* lines 140-148, one iteration
ProcessChlorophyll(acc, i, T) ==
    LET sensor == acc.blocks[i] IN
    IF ~(sensor.hasName /\ sensor.sensorName = "Chlorophyll") THEN acc
    ELSE IF sensor.dataKind = "absent" THEN acc
    ELSE IF sensor.dataKind = "null" THEN [ acc EXCEPT !.raised = TRUE ]
    ELSE IF sensor.valuesKind = "absent" THEN acc
    ELSE IF sensor.valuesKind = "null" THEN [ acc EXCEPT !.raised = TRUE ]
    ELSE [ acc EXCEPT
             !.pd = DictSet(@, "Chlorophyll", Aligned(sensor.values, T)),
             !.blocks[i].values = StoredAfter(sensor.values, T) ]

RECURSIVE ProcessChlorophylls(_, _, _)
ProcessChlorophylls(acc, i, T) ==
    IF acc.raised \/ i > Len(acc.blocks) THEN acc
    ELSE ProcessChlorophylls(ProcessChlorophyll(acc, i, T), i + 1, T)

\* pd.DataFrame(processed_data): raises unless all arrays have one length
DataFrame(pd) ==
    IF \A i, j \in DOMAIN pd : Len(pd[i].cells) = Len(pd[j].cells)
    THEN [ raised |-> FALSE, frame |-> pd ]
    ELSE [ raised |-> TRUE, frame |-> EmptyDataFrame ]

\* len(df.columns) in place of len(df)
NumRowsAsColumns(t) == Len(t)

\* number of rows of a table (0 for the table without columns)
NumRows(t) == IF t = << >> THEN 0 ELSE Len(t[1].cells)

\* lines 152-154: df[sensor] = None for every expected name that is no column
RECURSIVE FillExpected(_, _)
FillExpected(t, k) ==
    IF k > Len(expected_sensors) THEN t
    ELSE FillExpected(
            IF HasColumn(t, expected_sensors[k]) THEN t
            ELSE Append(t, [ name |-> expected_sensors[k], cells |-> NullColumn(NumRows(t)) ]),
            k + 1)

ProcessingError == [ level |-> "error", text |-> "Error processing data" ]

\* the except branch: st.error(...) and pd.DataFrame(); d is the payload as the
\* failed attempt left it
\* a handler that swallows the exception without st.error
FailedQuietly(d) ==
    [ raised |-> FALSE, df |-> EmptyDataFrame, msgs |-> << >>, data |-> d ]

\* the handler catches every Exception, so nothing escapes the call
Failed(d) ==
    [ raised |-> FALSE, df |-> EmptyDataFrame, msgs |-> << ProcessingError >>, data |-> d ]

\* the two early returns "return pd.DataFrame()"
Silent(d) == [ raised |-> FALSE, df |-> EmptyDataFrame, msgs |-> << >>, data |-> d ]

ProcessApiData(d) ==
    IF Falsy(d) THEN Silent(d)
    ELSE
    LET found == FindTimeValues(d) IN
    IF found.raised THEN Failed(d)
    ELSE IF ~found.found THEN Silent(d)
    ELSE
    LET T == Len(found.times)
        time == TimeColumn(found.times, found.zoned)
    IN
    IF time.raised THEN Failed(d)
    ELSE
    LET pd0 == [ raised |-> FALSE,
                 pd |-> << [ name |-> TIME_COLUMN, cells |-> time.cells ] >>,
                 blocks |-> d.sensorData ]
        a1 == ProcessSensors(pd0, 1, T)
        d1 == [ d EXCEPT !.sensorData = a1.blocks ]
    IN
    IF a1.raised THEN Failed(d1)
    ELSE
    LET a2 == IF d.hasChl /\ d.chlorophyll.hasSensorData
              THEN ProcessChlorophylls(
                      [ raised |-> FALSE, pd |-> a1.pd, blocks |-> d.chlorophyll.sensorData ],
                      1, T)
              ELSE [ raised |-> FALSE, pd |-> a1.pd, blocks |-> d.chlorophyll.sensorData ]
        d2 == [ d1 EXCEPT !.chlorophyll.sensorData = a2.blocks ]
    IN
    IF a2.raised THEN Failed(d2)
    ELSE
    LET frame == DataFrame(a2.pd) IN
    IF frame.raised THEN Failed(d2)
    ELSE [ raised |-> FALSE, df |-> FillExpected(frame.frame, 1), msgs |-> << >>, data |-> d2 ]


---------------------------------------------------------------------------
(* get_time_range: instants are seconds since 2023-12-13T00:00:00 UTC *)

TenMinutes == 600
TwoHours == 7200
OneDay == 86400
OneWeek == 604800
ThirtyDays == 2592000
HalfYear == 15552000
OneYear == 31536000
DeploymentStart == 0

SupportedOptions ==
    { "Past 10 Minutes", "Past 2 Hours", "Past 24 Hours", "Past 7 Days",
      "Past 1 Month", "Past 6 Months", "Past 1 Year", "All Available Data" }

\* the pair (None, None)
NoInterval == [ none |-> TRUE ]

Interval(start, end) == [ start |-> start, end |-> end ]

\* get_time_range with "Past 7 Days" resolved by the line above it
get_time_range_week_as_day(opt, clock) ==
    IF opt = "Past 10 Minutes" THEN Interval(clock - TenMinutes, clock)
    ELSE IF opt = "Past 2 Hours" THEN Interval(clock - TwoHours, clock)
    ELSE IF opt = "Past 24 Hours" THEN Interval(clock - OneDay, clock)
    ELSE IF opt = "Past 7 Days" THEN Interval(clock - OneDay, clock)
    ELSE IF opt = "Past 1 Month" THEN Interval(clock - ThirtyDays, clock)
    ELSE IF opt = "Past 6 Months" THEN Interval(clock - HalfYear, clock)
    ELSE IF opt = "Past 1 Year" THEN Interval(clock - OneYear, clock)
    ELSE IF opt = "All Available Data" THEN Interval(DeploymentStart, clock)
    ELSE NoInterval

\* get_time_range falling back to the default window for an unknown selector
get_time_range_with_default(opt, clock) ==
    IF opt = "Past 10 Minutes" THEN Interval(clock - TenMinutes, clock)
    ELSE IF opt = "Past 2 Hours" THEN Interval(clock - TwoHours, clock)
    ELSE IF opt = "Past 24 Hours" THEN Interval(clock - OneDay, clock)
    ELSE IF opt = "Past 7 Days" THEN Interval(clock - OneWeek, clock)
    ELSE IF opt = "Past 1 Month" THEN Interval(clock - ThirtyDays, clock)
    ELSE IF opt = "Past 6 Months" THEN Interval(clock - HalfYear, clock)
    ELSE IF opt = "Past 1 Year" THEN Interval(clock - OneYear, clock)
    ELSE IF opt = "All Available Data" THEN Interval(DeploymentStart, clock)
    ELSE Interval(clock - TenMinutes, clock)

get_time_range(opt, clock) ==
    IF opt = "Past 10 Minutes" THEN Interval(clock - TenMinutes, clock)
    ELSE IF opt = "Past 2 Hours" THEN Interval(clock - TwoHours, clock)
    ELSE IF opt = "Past 24 Hours" THEN Interval(clock - OneDay, clock)
    ELSE IF opt = "Past 7 Days" THEN Interval(clock - OneWeek, clock)
    ELSE IF opt = "Past 1 Month" THEN Interval(clock - ThirtyDays, clock)
    ELSE IF opt = "Past 6 Months" THEN Interval(clock - HalfYear, clock)
    ELSE IF opt = "Past 1 Year" THEN Interval(clock - OneYear, clock)
    ELSE IF opt = "All Available Data" THEN Interval(DeploymentStart, clock)
    ELSE NoInterval

---------------------------------------------------------------------------
(* fetch_data *)

ROW_LIMIT == 10000
DailyPeriod == 86400
ThreeDayPeriod == 259200

\* the payload None
NoPayload ==
    [ kind |-> "none", sensorDataKind |-> "absent", sensorData |-> << >>,
      hasChl |-> FALSE, chlorophyll |-> [ hasSensorData |-> FALSE, sensorData |-> << >> ] ]

\* lines 50-63
\* base_params with one daily resample period for every long window
BaseParamsAllDaily(time_range, interval) ==
    [ rowLimit |-> ROW_LIMIT, outputFormat |-> "array", qualityControl |-> "clean",
      dateFrom |-> interval.start, dateTo |-> interval.end,
      hasResamplePeriod |->
          time_range \in { "Past 6 Months", "Past 1 Year", "All Available Data" },
      resamplePeriod |->
          IF time_range \in { "Past 6 Months", "Past 1 Year", "All Available Data" }
          THEN DailyPeriod ELSE 0 ]
BaseParams(time_range, interval) ==
    [ rowLimit |-> ROW_LIMIT,
      outputFormat |-> "array",
      qualityControl |-> "clean",
      dateFrom |-> interval.start,
      dateTo |-> interval.end,
      hasResamplePeriod |->
          time_range \in { "Past 6 Months", "Past 1 Year", "All Available Data" },
      resamplePeriod |->
          IF time_range = "Past 6 Months" THEN DailyPeriod
          ELSE IF time_range \in { "Past 1 Year", "All Available Data" } THEN ThreeDayPeriod
          ELSE 0 ]

StandardRequest(base) ==
    [ params |-> base, deviceCode |-> "SBEDSPHOXV2SN7212038", sensorsToInclude |-> "" ]

\* the second request goes to the primary instrument again
ChlorophyllRequestToStandard(base) ==
    [ params |-> base, deviceCode |-> "SBEDSPHOXV2SN7212038", sensorsToInclude |-> "original" ]
ChlorophyllRequest(base) ==
    [ params |-> base, deviceCode |-> "TURNERCYCLOPS7F-900143", sensorsToInclude |-> "original" ]

RequestFailed(status) ==
    [ level |-> "error", text |-> "API Request Failed", status |-> status ]
ChlorophyllWarning == [ level |-> "warning", text |-> "Error fetching chlorophyll data" ]

\* lines 84-87: the side key is attached for a 200 response whose sensorData list
\* exists and is not empty
\* the side key is set for every 200 answer of the fluorometer
AttachChlorophyllUnchecked(payload, resp) ==
    IF resp.status = 200
    THEN [ payload EXCEPT !.hasChl = TRUE,
                          !.chlorophyll = [ hasSensorData |-> resp.json.sensorDataKind # "absent",
                                            sensorData |-> resp.json.sensorData ] ]
    ELSE payload
AttachChlorophyll(payload, resp) ==
    IF resp.status = 200 /\ resp.json.sensorDataKind = "list" /\ resp.json.sensorData # << >>
    THEN [ payload EXCEPT !.hasChl = TRUE,
                          !.chlorophyll = [ hasSensorData |-> TRUE,
                                            sensorData |-> resp.json.sensorData ] ]
    ELSE payload

\* fetch_data(time_range) with the clock reading and the two upstream responses
\* the call meets; a response is [raises, status, json]
\* fetch_data that asks the fluorometer whatever the primary status was
FetchDataAlwaysBoth(time_range, clock, primary, supplemental) ==
    LET interval == get_time_range(time_range, clock) IN
    IF interval = NoInterval
    THEN [ raised |-> FALSE, result |-> NoPayload, reqs |-> << >>, msgs |-> << >> ]
    ELSE
    LET base == BaseParams(time_range, interval) IN
    IF primary.raises
    THEN [ raised |-> TRUE, result |-> NoPayload,
           reqs |-> << StandardRequest(base) >>, msgs |-> << >> ]
    ELSE IF primary.status # 200
    THEN [ raised |-> FALSE, result |-> NoPayload,
           reqs |-> << StandardRequest(base), ChlorophyllRequest(base) >>,
           msgs |-> << RequestFailed(primary.status) >> ]
    ELSE IF supplemental.raises
    THEN [ raised |-> FALSE, result |-> primary.json,
           reqs |-> << StandardRequest(base), ChlorophyllRequest(base) >>,
           msgs |-> << ChlorophyllWarning >> ]
    ELSE [ raised |-> FALSE, result |-> AttachChlorophyll(primary.json, supplemental),
           reqs |-> << StandardRequest(base), ChlorophyllRequest(base) >>,
           msgs |-> << >> ]
FetchData(time_range, clock, primary, supplemental) ==
    LET interval == get_time_range(time_range, clock) IN
    IF interval = NoInterval
    THEN [ raised |-> FALSE, result |-> NoPayload, reqs |-> << >>, msgs |-> << >> ]
    ELSE
    LET base == BaseParams(time_range, interval) IN
    IF primary.raises
    THEN [ raised |-> TRUE, result |-> NoPayload,
           reqs |-> << StandardRequest(base) >>, msgs |-> << >> ]
    ELSE IF primary.status # 200
    THEN [ raised |-> FALSE, result |-> NoPayload,
           reqs |-> << StandardRequest(base) >>, msgs |-> << RequestFailed(primary.status) >> ]
    ELSE IF supplemental.raises
    THEN [ raised |-> FALSE, result |-> primary.json,
           reqs |-> << StandardRequest(base), ChlorophyllRequest(base) >>,
           msgs |-> << ChlorophyllWarning >> ]
    ELSE [ raised |-> FALSE, result |-> AttachChlorophyll(primary.json, supplemental),
           reqs |-> << StandardRequest(base), ChlorophyllRequest(base) >>,
           msgs |-> << >> ]



---------------------------------------------------------------------------
(* Payloads the upstream API can return *)

\* The code never inspects a reading or a timestamp it copies, so every block
\* gets readings and sample times of its own: entry k of block i is 10 * i + k,
\* sample k of block i is FirstSample + (i - 1) + (k - 1).
FirstSample == DstStart - 1

Readings(i, n) == [ k \in 1..n |-> 10 * i + k ]
Samples(i, n) == [ k \in 1..n |-> FirstSample + (i - 1) + (k - 1) ]

Absent == 0 - 2

\* a well-formed block: a sensorName, and a data object with sampleTimes of
\* length t and values of length v (Absent: the key is missing); the API writes
\* its timestamps with a trailing Z
Block(i, name, t, v) ==
    [ hasName |-> TRUE, sensorName |-> name, dataKind |-> "dict",
      hasTimes |-> t # Absent, zoned |-> t # Absent,
      sampleTimes |-> IF t = Absent THEN << >> ELSE Samples(i, t),
      valuesKind |-> IF v = Absent THEN "absent" ELSE "list",
      values |-> IF v = Absent THEN << >> ELSE Readings(i, v) ]

\* the block of a shape [kind, name, t, v] at position i of its list
Materialize(shape, i) ==
    CASE shape.kind = "ok" -> Block(i, shape.name, shape.t, shape.v)
      [] shape.kind = "no name" ->
            [ Block(i, "", Absent, 1) EXCEPT !.hasName = FALSE ]
      [] shape.kind = "null values" ->
            [ Block(i, shape.name, Absent, Absent) EXCEPT !.valuesKind = "null" ]
      [] shape.kind = "null data" ->
            [ Block(i, shape.name, Absent, Absent) EXCEPT !.dataKind = "null" ]
      [] shape.kind = "no data" ->
            [ Block(i, shape.name, Absent, Absent) EXCEPT !.dataKind = "absent" ]
      [] shape.kind = "bad time" ->
            [ Block(i, shape.name, 1, 1) EXCEPT !.sampleTimes = << BadTime >> ]

BlockList(shapes, offset) ==
    [ i \in DOMAIN shapes |-> Materialize(shapes[i], offset + i) ]

\* the same blocks with timestamps that carry no zone
Unzoned(blocks) == [ i \in DOMAIN blocks |-> [ blocks[i] EXCEPT !.zoned = FALSE ] ]

\* lengths tried for an array: missing, empty, one entry, the longest
TimeLengths == { Absent, 0, 1, MaxT }
ValueLengths == { Absent, 0, 1, MaxT, MaxLen }

Shapes(kinds, names, ts, vs) == [ kind : kinds, name : names, t : ts, v : vs ]

MalformedKinds == { "no name", "null values", "null data", "no data", "bad time" }

\* blocks of the primary instrument
PrimaryShapes ==
    Shapes({ "ok" }, { "Temperature", "Chlorophyll" }, TimeLengths, ValueLengths)
    \cup Shapes({ "ok" }, { "Turbidity" }, { Absent, MaxT }, { MaxT })
    \cup Shapes(MalformedKinds, { "Temperature" }, { Absent }, { Absent })

\* blocks of the fluorometer
SupplementalShapes ==
    Shapes({ "ok" }, { "Chlorophyll", "Turbidity" }, { Absent, 1 }, ValueLengths)
    \cup Shapes({ "no name", "null values", "null data" }, { "Chlorophyll" },
                { Absent }, { Absent })

EmptyDict == [ NoPayload EXCEPT !.kind = "dict" ]
NullSensorData == [ EmptyDict EXCEPT !.sensorDataKind = "null" ]
Payload(blocks) == [ EmptyDict EXCEPT !.sensorDataKind = "list", !.sensorData = blocks ]

\* data["chlorophyll"] = chlorophyll_data
WithChlorophyll(payload, blocks) ==
    [ payload EXCEPT !.hasChl = TRUE,
                     !.chlorophyll = [ hasSensorData |-> TRUE, sensorData |-> blocks ] ]

\* readings of the fluorometer follow those of the primary instrument
SupplementalOffset == MaxBlocks + 2

---------------------------------------------------------------------------
(* The normalizer on the payloads of the primary instrument *)

\* no request was answered yet
NoResponse == [ raises |-> FALSE, status |-> 0, json |-> EmptyDict ]

NoUpstream == [ primary |-> NoResponse, supplemental |-> NoResponse ]

\* a fresh session: no "df" key, the radio on its first entry, no click
FreshSession ==
    /\ hasDf = FALSE
    /\ clicked = FALSE
    /\ page = "Humpback Migration"
    /\ runs = 0

Idle ==
    /\ df = EmptyDataFrame
    /\ messages = << >>
    /\ raised = FALSE
    /\ option = ""
    /\ now = 0
    /\ range = NoInterval
    /\ requests = << >>
    /\ upstream = NoUpstream
    /\ fetches = << >>
    /\ FreshSession

InitNorm ==
    /\ \/ data \in { NoPayload, EmptyDict, NullSensorData }
       \/ \E n \in 0..MaxBlocks : \E shapes \in [ 1..n -> PrimaryShapes ] :
          \E blocks \in { BlockList(shapes, 0), Unzoned(BlockList(shapes, 0)) } :
            \/ data = Payload(blocks)
            \/ data = WithChlorophyll(
                         Payload(blocks),
                         << Block(SupplementalOffset, "Chlorophyll", Absent, MaxLen) >>)
    /\ arg = data
    /\ Idle
    /\ pc = "call"

\* st.session_state.df = process_api_data(api_data)
Process ==
    /\ pc = "call"
    /\ LET r == ProcessApiData(data) IN
         /\ df' = r.df
         /\ messages' = messages \o r.msgs
         /\ raised' = r.raised
         /\ data' = r.data
    /\ pc' = "done"
    /\ UNCHANGED << arg, option, now, range, requests, upstream, fetches, session >>

NextNorm == Process

SpecNorm == InitNorm /\ [][NextNorm]_vars

---------------------------------------------------------------------------
(* The normalizer on the payloads of the fluorometer *)

SmallPrimaryShapes ==
    Shapes({ "ok" }, { "Temperature", "Chlorophyll" }, TimeLengths, { Absent, MaxT })

InitSupp ==
    /\ \E primary \in { EmptyDict, NullSensorData, Payload(<< >>) }
                      \cup { Payload(BlockList(<< sh >>, 0)) : sh \in SmallPrimaryShapes } :
         \E n \in 1..MaxBlocks : \E shapes \in [ 1..n -> SupplementalShapes ] :
            data = WithChlorophyll(primary, BlockList(shapes, SupplementalOffset))
    /\ arg = data
    /\ Idle
    /\ pc = "call"

SpecSupp == InitSupp /\ [][NextNorm]_vars


---------------------------------------------------------------------------
(* Vocabulary of the claims about the normalizer, read off the payload as it was
   passed (arg) and the table returned (df) *)

Done == pc = "done"

\* the call returned a table that has columns
Built == Done /\ df # EmptyDataFrame

PrimaryOf(p) == IF p.sensorDataKind = "list" THEN p.sensorData ELSE << >>
SupplementalOf(p) == IF p.hasChl THEN p.chlorophyll.sensorData ELSE << >>

CarriesTimes(b) == b.dataKind = "dict" /\ b.hasTimes
CarriesValues(b) == b.dataKind = "dict" /\ b.valuesKind = "list"

HasCanonical(p) == \E i \in DOMAIN PrimaryOf(p) : CarriesTimes(PrimaryOf(p)[i])

\* the first block, in payload order, that has a sampleTimes array
FirstWithTimes(p) ==
    CHOOSE i \in DOMAIN PrimaryOf(p) :
        /\ CarriesTimes(PrimaryOf(p)[i])
        /\ \A j \in 1..(i - 1) : ~CarriesTimes(PrimaryOf(p)[j])

CanonicalTimes(p) == PrimaryOf(p)[FirstWithTimes(p)].sampleTimes
CanonicalT(p) == Len(CanonicalTimes(p))

\* the first min(len(values), T) values in order, then nulls up to length T
ExpectedColumn(values, T) ==
    [ k \in 1..T |-> IF k <= Len(values) THEN values[k] ELSE Null ]

\* supplemental blocks named Chlorophyll that have a values array
ChlorophyllSuppliers(p) ==
    { j \in DOMAIN SupplementalOf(p) :
        /\ SupplementalOf(p)[j].hasName
        /\ SupplementalOf(p)[j].sensorName = "Chlorophyll"
        /\ CarriesValues(SupplementalOf(p)[j]) }

\* primary blocks with a values array under the name n
PrimarySuppliers(p, n) ==
    { i \in DOMAIN PrimaryOf(p) :
        /\ PrimaryOf(p)[i].hasName
        /\ PrimaryOf(p)[i].sensorName = n
        /\ CarriesValues(PrimaryOf(p)[i]) }

Last(S) == CHOOSE i \in S : \A j \in S : j <= i

Supplied(p, n) ==
    PrimarySuppliers(p, n) # {} \/ (n = "Chlorophyll" /\ ChlorophyllSuppliers(p) # {})

\* the values array written last under the name n
LastSupplied(p, n) ==
    IF n = "Chlorophyll" /\ ChlorophyllSuppliers(p) # {}
    THEN SupplementalOf(p)[Last(ChlorophyllSuppliers(p))].values
    ELSE PrimaryOf(p)[Last(PrimarySuppliers(p, n))].values

\* primary block i is written again later under the same name
Overwritten(p, i) ==
    \/ \E j \in PrimarySuppliers(p, PrimaryOf(p)[i].sensorName) : j > i
    \/ PrimaryOf(p)[i].sensorName = "Chlorophyll" /\ ChlorophyllSuppliers(p) # {}

ColumnIs(n, values) ==
    HasColumn(df, n) /\ Column(df, n) = ExpectedColumn(values, CanonicalT(arg))

---------------------------------------------------------------------------
(* Claims *)

\* C1 as stated: in a returned table, every primary block that has a values
\* array has under its sensorName a column holding its own first min(len, T)
\* values followed by nulls up to T.
C1_EveryBlockHasItsColumn ==
    Built =>
        \A i \in DOMAIN PrimaryOf(arg) :
            CarriesValues(PrimaryOf(arg)[i]) =>
                /\ PrimaryOf(arg)[i].hasName
                /\ ColumnIs(PrimaryOf(arg)[i].sensorName, PrimaryOf(arg)[i].values)

\* C1 amended: in a returned table, every primary block that has a values array
\* and whose name is not written again later (by a later primary block with
\* values, or for Chlorophyll by a supplemental Chlorophyll block with values)
\* has under its sensorName a column holding its first min(len, T) values in
\* order followed by nulls up to length T.
C1_LastBlockHasItsColumn ==
    Built =>
        \A i \in DOMAIN PrimaryOf(arg) :
            (CarriesValues(PrimaryOf(arg)[i]) /\ ~Overwritten(arg, i)) =>
                /\ PrimaryOf(arg)[i].hasName
                /\ ColumnIs(PrimaryOf(arg)[i].sensorName, PrimaryOf(arg)[i].values)

\* a returned table with one block truncated and another padded
C1_Witness ==
    /\ Built
    /\ \E i, j \in DOMAIN PrimaryOf(arg) :
          /\ CarriesValues(PrimaryOf(arg)[i]) /\ ~Overwritten(arg, i)
          /\ CarriesValues(PrimaryOf(arg)[j]) /\ ~Overwritten(arg, j)
          /\ Len(PrimaryOf(arg)[i].values) > CanonicalT(arg)
          /\ Len(PrimaryOf(arg)[j].values) < CanonicalT(arg)

\* C2: every column of a returned table that has columns has exactly T rows.
C2_EveryColumnHasTRows ==
    Built => \A c \in DOMAIN df : Len(df[c].cells) = CanonicalT(arg)

\* a returned table with a truncated primary column, the supplemental
\* Chlorophyll column and registry-filled columns
C2_Witness ==
    /\ Built
    /\ CanonicalT(arg) > 0
    /\ ChlorophyllSuppliers(arg) # {}
    /\ ~Supplied(arg, "Density")
    /\ \E i \in DOMAIN PrimaryOf(arg) :
          /\ CarriesValues(PrimaryOf(arg)[i])
          /\ Len(PrimaryOf(arg)[i].values) # CanonicalT(arg)

SevenNames ==
    { "External pH (Dynamic Salinity)", "Oxygen Concentration Corrected",
      "Practical Salinity", "Temperature", "Density", "Internal Temperature",
      "Chlorophyll" }

\* C3: in a returned table each of the seven expected names is a column; a name
\* no block supplied is all nulls, a supplied name holds the aligned values of
\* the block that supplied it (the last one written).
C3_SevenColumns ==
    Built =>
        \A n \in SevenNames :
            /\ HasColumn(df, n)
            /\ IF Supplied(arg, n)
               THEN ColumnIs(n, LastSupplied(arg, n))
               ELSE Column(df, n) = [ k \in 1..CanonicalT(arg) |-> Null ]

\* a returned table with rows where Temperature was supplied and Chlorophyll
\* was not
C3_Witness ==
    /\ Built
    /\ CanonicalT(arg) > 0
    /\ Supplied(arg, "Temperature")
    /\ ~Supplied(arg, "Chlorophyll")

\* C4: a primary payload that is absent, empty, without a sensorData list or
\* without a block carrying sampleTimes gives the empty table, no exception and
\* no message.
C4_NoTimesIsSilent ==
    (Done /\ ~HasCanonical(arg)) =>
        /\ df = EmptyDataFrame
        /\ ~raised
        /\ messages = << >>

\* C5: the timestamp column has one entry per entry of the sampleTimes array of
\* the first block that has one, each denoting the same instant; no later
\* block's sampleTimes enter.
C5_FirstSampleTimes ==
    Built =>
        /\ HasColumn(df, TIME_COLUMN)
        /\ Len(Column(df, TIME_COLUMN)) = CanonicalT(arg)
        /\ \A k \in 1..CanonicalT(arg) :
              InstantOf(Column(df, TIME_COLUMN)[k]) = CanonicalTimes(arg)[k]

\* a returned table with rows, built from zone-naive timestamps, whose payload
\* has a later block with a sampleTimes array of another length
C5_Witness ==
    /\ Built
    /\ CanonicalT(arg) > 0
    /\ ~PrimaryOf(arg)[FirstWithTimes(arg)].zoned
    /\ \E j \in DOMAIN PrimaryOf(arg) :
          /\ j > FirstWithTimes(arg)
          /\ CarriesTimes(PrimaryOf(arg)[j])
          /\ Len(PrimaryOf(arg)[j].sampleTimes) # CanonicalT(arg)

\* C6: when the supplemental payload has a Chlorophyll block with a values
\* array, the Chlorophyll column of a returned table is that array (of the last
\* such block) truncated or null-padded to T, also when the primary payload
\* supplied a Chlorophyll column.
C6_SupplementalChlorophyll ==
    (Built /\ ChlorophyllSuppliers(arg) # {}) =>
        ColumnIs("Chlorophyll",
                 SupplementalOf(arg)[Last(ChlorophyllSuppliers(arg))].values)

\* a returned table with rows where primary and supplemental both supplied
\* Chlorophyll and the supplemental array is not of length T
C6_Witness ==
    /\ Built
    /\ CanonicalT(arg) > 0
    /\ PrimarySuppliers(arg, "Chlorophyll") # {}
    /\ \E j \in ChlorophyllSuppliers(arg) :
          /\ j = Last(ChlorophyllSuppliers(arg))
          /\ Len(SupplementalOf(arg)[j].values) # CanonicalT(arg)

\* the supplemental payload without what the claim calls irrelevant: the blocks
\* not named Chlorophyll dropped, the sampleTimes arrays removed
WithoutTimes(b) ==
    [ b EXCEPT !.hasTimes = FALSE, !.zoned = FALSE, !.sampleTimes = << >> ]

NamedChlorophyll(b) == b.hasName /\ b.sensorName = "Chlorophyll"

RECURSIVE ChlorophyllOnly(_)
ChlorophyllOnly(blocks) ==
    IF blocks = << >> THEN << >>
    ELSE IF NamedChlorophyll(Head(blocks))
    THEN << WithoutTimes(Head(blocks)) >> \o ChlorophyllOnly(Tail(blocks))
    ELSE ChlorophyllOnly(Tail(blocks))

Reduced(p) ==
    IF p.hasChl
    THEN [ p EXCEPT !.chlorophyll.sensorData = ChlorophyllOnly(@) ]
    ELSE p

\* C7: the table is the one the reduced payload gives, so two payloads that
\* differ only in supplemental sampleTimes or in supplemental blocks of another
\* name give the same table.
C7_SupplementalOnlyThroughChlorophyllValues ==
    Done => df = ProcessApiData(Reduced(arg)).df

\* a returned table with rows whose supplemental payload had a block of another
\* name with values and a Chlorophyll block with sampleTimes
C7_Witness ==
    /\ Built
    /\ CanonicalT(arg) > 0
    /\ \E i, j \in DOMAIN SupplementalOf(arg) :
          /\ ~NamedChlorophyll(SupplementalOf(arg)[i])
          /\ CarriesValues(SupplementalOf(arg)[i])
          /\ NamedChlorophyll(SupplementalOf(arg)[j])
          /\ CarriesTimes(SupplementalOf(arg)[j])
          /\ CarriesValues(SupplementalOf(arg)[j])

\* a step fails while the table is being built: there is a canonical timestamp
\* vector and a primary block has values but no sensorName, or values that are
\* not a list
StepFails(p) ==
    /\ HasCanonical(p)
    /\ \E i \in DOMAIN PrimaryOf(p) :
          /\ PrimaryOf(p)[i].dataKind = "dict"
          /\ PrimaryOf(p)[i].valuesKind # "absent"
          /\ ~PrimaryOf(p)[i].hasName \/ PrimaryOf(p)[i].valuesKind = "null"

\* C8: no exception escapes; a call emits at most one message, a call that
\* emitted one returned the empty table, and a call in which a step failed
\* emitted exactly the error message and returned the empty table.
C8_FailureIsReportedOnce ==
    Done =>
        /\ ~raised
        /\ Len(messages) <= 1
        /\ messages # << >> => (df = EmptyDataFrame /\ messages = << ProcessingError >>)
        /\ StepFails(arg) => (df = EmptyDataFrame /\ messages = << ProcessingError >>)

\* a failed call whose first block was aligned before the second, which has
\* values and no sensorName, failed
C8_Witness ==
    /\ Done
    /\ StepFails(arg)
    /\ Len(PrimaryOf(arg)) >= 2
    /\ CarriesTimes(PrimaryOf(arg)[1])
    /\ CarriesValues(PrimaryOf(arg)[1]) /\ PrimaryOf(arg)[1].hasName
    /\ CarriesValues(PrimaryOf(arg)[2]) /\ ~PrimaryOf(arg)[2].hasName


---------------------------------------------------------------------------
(* The range resolver and the fetch *)

UnsupportedOptions == { "", "past 10 minutes", "Past 5 Years" }

Selectors == SupportedOptions \cup UnsupportedOptions

\* clock readings of a run: instants after the deployment date
Clocks == { k * HalfYear + TenMinutes : k \in 0..MaxNow }

\* what the upstream API may answer to the primary request
PrimaryResponses ==
    { [ raises |-> TRUE, status |-> 0, json |-> EmptyDict ] }
    \cup [ raises : { FALSE }, status : { 404, 500 }, json : { EmptyDict } ]
    \cup [ raises : { FALSE }, status : { 200 },
           json : { EmptyDict, NullSensorData, Payload(<< >>),
                    Payload(<< Block(1, "Temperature", MaxT, MaxT) >>) } ]

\* what it may answer to the supplemental request
SupplementalResponses ==
    { [ raises |-> TRUE, status |-> 0, json |-> EmptyDict ] }
    \cup [ raises : { FALSE }, status : { 404 }, json : { EmptyDict } ]
    \cup [ raises : { FALSE }, status : { 200 },
           json : { EmptyDict, NullSensorData, Payload(<< >>),
                    Payload(<< Block(SupplementalOffset, "Chlorophyll", 1, MaxLen) >>) } ]

InitRange ==
    /\ option \in Selectors
    /\ now \in Clocks
    /\ data = NoPayload
    /\ arg = NoPayload
    /\ df = EmptyDataFrame
    /\ messages = << >>
    /\ raised = FALSE
    /\ range = NoInterval
    /\ requests = << >>
    /\ upstream = NoUpstream
    /\ fetches = << >>
    /\ FreshSession
    /\ pc = "idle"

\* get_time_range(option)
Resolve ==
    /\ pc = "idle"
    /\ range' = get_time_range(option, now)
    /\ pc' = "resolved"
    /\ UNCHANGED << data, arg, df, messages, raised, option, now, requests, upstream,
                    fetches, session >>

\* api_data = fetch_data(option)
Fetch ==
    /\ pc = "idle"
    /\ \E primary \in PrimaryResponses, supplemental \in SupplementalResponses :
         LET r == FetchData(option, now, primary, supplemental) IN
            /\ range' = get_time_range(option, now)
            /\ data' = r.result
            /\ arg' = r.result
            /\ requests' = requests \o r.reqs
            /\ messages' = messages \o r.msgs
            /\ raised' = r.raised
            /\ upstream' = [ primary |-> primary, supplemental |-> supplemental ]
            /\ fetches' = Append(fetches, option)
            /\ pc' = IF r.raised THEN "crashed" ELSE "fetched"
    /\ UNCHANGED << df, option, now, session >>

NextRange == Resolve \/ Fetch

SpecRange == InitRange /\ [][NextRange]_vars

\* the durations of the seven relative selectors
ClaimedDuration(opt) ==
    CASE opt = "Past 10 Minutes" -> 10 * 60
      [] opt = "Past 2 Hours" -> 2 * 60 * 60
      [] opt = "Past 24 Hours" -> 24 * 60 * 60
      [] opt = "Past 7 Days" -> 7 * 24 * 60 * 60
      [] opt = "Past 1 Month" -> 30 * 24 * 60 * 60
      [] opt = "Past 6 Months" -> 180 * 24 * 60 * 60
      [] opt = "Past 1 Year" -> 365 * 24 * 60 * 60

\* C9: for a supported selector get_time_range returns (start, end) with end
\* the instant read in the call and start < end; end - start is the selector's
\* duration for the seven relative selectors, and start is the deployment date
\* for All Available Data.
C9_SupportedSelectors ==
    (pc = "resolved" /\ option \in SupportedOptions) =>
        /\ range # NoInterval
        /\ range.end = now
        /\ range.start < range.end
        /\ IF option = "All Available Data"
           THEN range.start = 0
           ELSE range.end - range.start = ClaimedDuration(option)

\* Past 7 Days resolved at a clock reading later than the deployment date
C9_Witness ==
    /\ pc = "resolved"
    /\ option = "Past 7 Days"
    /\ now > 7 * 24 * 60 * 60
    /\ range = [ start |-> now - 7 * 24 * 60 * 60, end |-> now ]

\* C10: for a selector that is not one of the eight, get_time_range returns
\* (None, None), and fetch_data returns no payload, issues no request and
\* emits nothing.
C10_UnknownSelector ==
    (pc # "idle" /\ option \notin SupportedOptions) =>
        /\ range = NoInterval
        /\ pc \in { "resolved", "fetched" }
        /\ pc = "fetched" => (data = NoPayload /\ requests = << >> /\ messages = << >>)

\* fetch_data returned for a selector that differs from a supported one in case
C10_Witness ==
    /\ pc = "fetched"
    /\ option = "past 10 minutes"
    /\ requests = << >>

---------------------------------------------------------------------------
(* The pages of src/humpback_whale.py *)

FEEDING_FACTORS == { "Chlorophyll", "External pH (Dynamic Salinity)", "Temperature" }

BREEDING_FACTORS ==
    { "Temperature", "External pH (Dynamic Salinity)", "Oxygen Concentration Corrected" }

\* DataFrame.empty: no column or no row
IsEmpty(t) == t = << >> \/ NumRows(t) = 0

\* the rows dropna keeps: those with a value in every column of the subset
KeptRows(t, factors) ==
    LET Complete(i) == \A f \in factors : Column(t, f)[i] # Null
    IN SelectSeq([ i \in 1..NumRows(t) |-> i ], Complete)

\* dropna(how="all"): a row goes only when every column of the subset is null
preprocess_data_how_all(t, factors) ==
    LET kept == SelectSeq([ i \in 1..NumRows(t) |-> i ],
                          LAMBDA i : \E f \in factors : Column(t, f)[i] # Null)
    IN [ c \in DOMAIN t |->
           [ name |-> t[c].name,
             cells |-> [ j \in 1..Len(kept) |-> t[c].cells[kept[j]] ] ] ]
\* df.dropna(subset=factors): a new table of the kept rows, columns as before
preprocess_data(t, factors) ==
    LET kept == KeptRows(t, factors) IN
    [ c \in DOMAIN t |->
        [ name |-> t[c].name,
          cells |-> [ j \in 1..Len(kept) |-> t[c].cells[kept[j]] ] ] ]

NoDataWarning == [ level |-> "warning", text |-> "No data available" ]

\* feeding_conditions_page / breeding_conditions_page: the session table is
\* replaced by its filtered copy, or a warning is shown for an empty table
ConditionsPage(s, factors) ==
    IF ~IsEmpty(s.df)
    THEN [ s EXCEPT !.df = preprocess_data(s.df, factors) ]
    ELSE [ s EXCEPT !.msgs = Append(@, NoDataWarning) ]

\* migration_page: the tabs are drawn only for a table with rows; the third
\* tab is the feeding page, the fifth the breeding page
MigrationPage(t) ==
    LET s == [ df |-> t, msgs |-> << >> ] IN
    IF ~IsEmpty(t)
    THEN ConditionsPage(ConditionsPage(s, FEEDING_FACTORS), BREEDING_FACTORS)
    ELSE [ s EXCEPT !.msgs = Append(@, NoDataWarning) ]

---------------------------------------------------------------------------
(* The Streamlit script of src/app.py: one run per user event *)

MaxRuns == 2        \* reruns of the script after the first run

DEFAULT_TIME_RANGE == "Past 10 Minutes"

Pages == { "Humpback Migration", "Ocean Data Dashboard" }

\* clock readings of a session: the earliest and the latest of Clocks
SessionClocks == { TenMinutes, MaxNow * HalfYear + TenMinutes }

\* a payload with the three breeding factors; the last Oxygen reading is missing
FullPayload ==
    Payload(<< Block(1, "Temperature", MaxT, MaxT),
               Block(2, "External pH (Dynamic Salinity)", Absent, MaxT),
               Block(3, "Oxygen Concentration Corrected", Absent, MaxT - 1) >>)

SessionPrimaryResponses ==
    { [ raises |-> TRUE, status |-> 0, json |-> EmptyDict ] }
    \cup [ raises : { FALSE }, status : { 500 }, json : { EmptyDict } ]
    \cup [ raises : { FALSE }, status : { 200 },
           json : { NullSensorData,
                    Payload(<< Block(1, "Temperature", MaxT, MaxT) >>),
                    FullPayload } ]

SessionSupplementalResponses ==
    { [ raises |-> TRUE, status |-> 0, json |-> EmptyDict ] }
    \cup [ raises : { FALSE }, status : { 404 }, json : { EmptyDict } ]
    \cup [ raises : { FALSE }, status : { 200 },
           json : { Payload(<< >>),
                    Payload(<< Block(SupplementalOffset, "Chlorophyll", Absent, 1) >>),
                    Payload(<< Block(SupplementalOffset, "Chlorophyll", Absent, MaxLen) >>) } ]

\* the assignment keeps the table it had when the new one has no column
SessionAssignKeepingOld(old, new) == IF new = EmptyDataFrame THEN old ELSE new

\* st.session_state.df = <table>
SessionAssign(old, new) == new

\* api_data = fetch_data(time_range)
\* st.session_state.df = process_api_data(api_data)
\* An exception that escapes fetch_data ends the script run.
FetchAndAssign(time_range, next) ==
    \E clock \in SessionClocks :
    \E primary \in SessionPrimaryResponses, supplemental \in SessionSupplementalResponses :
        LET f == FetchData(time_range, clock, primary, supplemental)
            r == ProcessApiData(f.result)
        IN  /\ now' = clock
            /\ range' = get_time_range(time_range, clock)
            /\ upstream' = [ primary |-> primary, supplemental |-> supplemental ]
            /\ fetches' = Append(fetches, time_range)
            /\ requests' = requests \o f.reqs
            /\ raised' = f.raised
            /\ IF f.raised
               THEN /\ messages' = messages \o f.msgs
                    /\ pc' = "idle"
                    /\ UNCHANGED << data, arg, df, hasDf >>
               ELSE /\ arg' = f.result
                    /\ data' = r.data
                    /\ df' = SessionAssign(df, r.df)
                    /\ hasDf' = TRUE
                    /\ messages' = messages \o f.msgs \o r.msgs
                    /\ pc' = next

InitApp ==
    /\ data = NoPayload
    /\ arg = NoPayload
    /\ df = EmptyDataFrame
    /\ messages = << >>
    /\ raised = FALSE
    /\ option = DEFAULT_TIME_RANGE
    /\ now = 0
    /\ range = NoInterval
    /\ requests = << >>
    /\ upstream = NoUpstream
    /\ fetches = << >>
    /\ FreshSession
    /\ pc = "init"

\* if "df" not in st.session_state: fetch the default window
SessionInit ==
    /\ pc = "init"
    /\ IF hasDf
       THEN /\ pc' = "sidebar"
            /\ UNCHANGED << data, arg, df, messages, raised, now, range, requests,
                            upstream, fetches, hasDf >>
       ELSE FetchAndAssign(DEFAULT_TIME_RANGE, "sidebar")
    /\ UNCHANGED << option, clicked, page, runs >>

\* the selectbox, and the fetch behind the button "Fetch Data"
Sidebar ==
    /\ pc = "sidebar"
    /\ IF clicked
       THEN FetchAndAssign(option, "view")
       ELSE /\ pc' = "view"
            /\ UNCHANGED << data, arg, df, messages, raised, now, range, requests,
                            upstream, fetches, hasDf >>
    /\ UNCHANGED << option, clicked, page, runs >>

\* the radio, and the page it selects
View ==
    /\ pc = "view"
    /\ IF page = "Humpback Migration"
       THEN LET s == MigrationPage(df) IN
              /\ df' = s.df
              /\ messages' = messages \o s.msgs
       ELSE /\ IF IsEmpty(df)
               THEN messages' = Append(messages, [ level |-> "write", text |-> "No data available" ])
               ELSE messages' = messages
            /\ df' = df
    /\ pc' = "idle"
    /\ UNCHANGED << data, arg, raised, option, now, range, requests, upstream,
                    fetches, hasDf, clicked, page, runs >>

\* a user event reruns the script from its first line: the locals of the last
\* run are gone, the session and the widget values stay
Rerun ==
    /\ pc = "idle"
    /\ runs < MaxRuns
    /\ \/ \E o \in SupportedOptions : option' = o /\ clicked' = FALSE /\ page' = page
       \/ \E p \in Pages : page' = p /\ clicked' = FALSE /\ option' = option
       \/ clicked' = TRUE /\ UNCHANGED << option, page >>
    /\ runs' = runs + 1
    /\ data' = NoPayload
    /\ arg' = NoPayload
    /\ messages' = << >>
    /\ raised' = FALSE
    /\ now' = 0
    /\ range' = NoInterval
    /\ requests' = << >>
    /\ upstream' = NoUpstream
    /\ fetches' = << >>
    /\ pc' = "init"
    /\ UNCHANGED << df, hasDf >>

NextApp == SessionInit \/ Sidebar \/ View \/ Rerun

SpecApp == InitApp /\ [][NextApp]_vars

---------------------------------------------------------------------------
(* Claims about the session *)

\* the step is one of the two fetch sites of the script
FetchStep == (pc = "init" /\ ~hasDf) \/ (pc = "sidebar" /\ clicked)

\* fetch_data returned None: no interval, or a primary status other than 200
ObtainedNothing == ~raised /\ arg = NoPayload /\ upstream.primary.status # 200

\* C11 as stated: a fetch that obtains no payload (unrecognized selector, or a
\* primary response whose status is not 200) leaves the session table as it
\* was before the fetch.
C11_FailedFetchKeepsTable ==
    [][(FetchStep /\ ObtainedNothing') => df' = df]_vars

---------------------------------------------------------------------------
(* Claims about fetch_data *)

\* fetch_data was called and has ended, by a return or by an exception
Fetched == pc \in { "fetched", "crashed" }

\* the resample period of the lookup table; 0 stands for no parameter
ClaimedResample(opt) ==
    CASE opt = "Past 6 Months" -> 86400
      [] opt \in { "Past 1 Year", "All Available Data" } -> 259200
      [] OTHER -> 0

ResampleOf(req) == IF req.params.hasResamplePeriod THEN req.params.resamplePeriod ELSE 0

\* C12: every request of a fetch carries resamplePeriod 86400 exactly for Past
\* 6 Months, 259200 exactly for Past 1 Year and All Available Data, and no
\* resamplePeriod otherwise; the primary and the supplemental request of one
\* fetch carry the same resample period, dateFrom and dateTo.
C12_ResampleLookup ==
    Fetched =>
        /\ \A i \in DOMAIN requests :
             /\ ResampleOf(requests[i]) = ClaimedResample(option)
             /\ requests[i].params.hasResamplePeriod = (ClaimedResample(option) # 0)
        /\ Len(requests) = 2 =>
             /\ ResampleOf(requests[1]) = ResampleOf(requests[2])
             /\ requests[1].params.dateFrom = requests[2].params.dateFrom
             /\ requests[1].params.dateTo = requests[2].params.dateTo

\* both instruments were asked for a year of three-day averages
C12_Witness ==
    /\ pc = "fetched"
    /\ option = "Past 1 Year"
    /\ Len(requests) = 2
    /\ requests[1].params.hasResamplePeriod
    /\ requests[2].params.resamplePeriod = 259200
    /\ requests[2].params.dateTo = now

\* the primary instrument answered, with a status other than 200
PrimaryRefused ==
    /\ Fetched
    /\ requests # << >>
    /\ ~upstream.primary.raises
    /\ upstream.primary.status # 200

\* C13: when the primary request returns a status other than 200, fetch_data
\* emits exactly one message, an error, returns no payload and issues no
\* request to the fluorometer.
C13_PrimaryNon200 ==
    PrimaryRefused =>
        /\ ~raised
        /\ Len(messages) = 1
        /\ messages[1].level = "error"
        /\ data = NoPayload
        /\ Len(requests) = 1
        /\ requests[1].deviceCode = "SBEDSPHOXV2SN7212038"

\* the primary instrument answered 500 and the failure was reported
C13_Witness ==
    /\ pc = "fetched"
    /\ upstream.primary.status = 500
    /\ Len(requests) = 1
    /\ Len(messages) = 1
    /\ messages[1].status = 500

\* the HTTP client raised during the primary request of the last fetch
PrimaryRaised == requests # << >> /\ upstream.primary.raises

\* C14 as stated: a network error raised by the HTTP client during the primary
\* request does not leave the fetch as an exception; it is reported by a
\* user-visible message and the script run goes on.
C14_NetworkErrorIsNonFatal ==
    PrimaryRaised => (~raised /\ messages # << >>)

\* C15: when a fetch assigns the session table, the new table is
\* process_api_data of the payload this fetch obtained, whatever the table
\* held before.
C15_TableIsRebuilt ==
    [][(FetchStep /\ ~raised') => df' = ProcessApiData(arg').df]_vars

\* a click on "Fetch Data" in a later run stored a table with rows, built from
\* a payload with both instruments
C15_Witness ==
    /\ pc = "view"
    /\ clicked
    /\ runs > 0
    /\ hasDf
    /\ arg.hasChl
    /\ ~IsEmpty(df)
    /\ df = ProcessApiData(arg).df

\* the step draws the page selected by the radio
RenderStep == pc = "view"

\* C16 as stated: rendering a page, Humpback Migration with its feeding and
\* breeding tabs or Ocean Data Dashboard, leaves the session table as the last
\* fetch stored it.
C16_RenderOnlyReads ==
    [][RenderStep => df' = df]_vars

\* C17: the requests of one fetch are issued one after another: first the
\* primary instrument, then the fluorometer, and the fluorometer only after
\* the primary instrument answered 200; no instrument is asked twice, so
\* there are at most two requests.
C17_RequestsInSequence ==
    Fetched =>
        /\ Len(requests) <= 2
        /\ requests # << >> => requests[1].deviceCode = "SBEDSPHOXV2SN7212038"
        /\ Len(requests) = 2 =>
             /\ requests[2].deviceCode = "TURNERCYCLOPS7F-900143"
             /\ ~upstream.primary.raises
             /\ upstream.primary.status = 200
        /\ \A i, j \in DOMAIN requests :
             requests[i].deviceCode = requests[j].deviceCode => i = j

\* both instruments were asked, the fluorometer last
C17_Witness ==
    /\ pc = "fetched"
    /\ upstream.primary.status = 200
    /\ Len(requests) = 2
    /\ requests[2].deviceCode = "TURNERCYCLOPS7F-900143"
    /\ requests[2].sensorsToInclude = "original"

---------------------------------------------------------------------------
(* The time column over the year 2024 *)

\* 2024-06-01T12:00 UTC, in hours since 2024-01-01T00:00
JuneNoon == (31 + 29 + 31 + 30 + 31) * 24 + 12

\* sample times in winter, around both changes of the clock, and in summer
TimeInstants == { 12, DstStart - 1, DstStart, JuneNoon, DstEnd - 1, DstEnd, DstEnd + 600 }

\* a Temperature block with the given sampleTimes, written with or without "Z"
TimedBlock(times, z) ==
    [ Block(1, "Temperature", 0, Len(times)) EXCEPT !.sampleTimes = times, !.zoned = z ]

InitTime ==
    /\ \E n \in 0..MaxT : \E times \in [ 1..n -> TimeInstants ] : \E z \in BOOLEAN :
          data = Payload(<< TimedBlock(times, z) >>)
    /\ arg = data
    /\ Idle
    /\ pc = "call"

SpecTime == InitTime /\ [][NextNorm]_vars

\* daylight time in Halifax in 2024: from the second Sunday of March, 02:00
\* standard time, to the first Sunday of November, 02:00 daylight time
ClaimedSummer(utc) ==
    /\ (31 + 29 + 9) * 24 + 2 + 4 <= utc
    /\ utc < (31 + 29 + 31 + 30 + 31 + 30 + 31 + 31 + 30 + 31 + 2) * 24 + 2 + 3

ClaimedOffset(utc) == IF ClaimedSummer(utc) THEN 0 - 3 ELSE 0 - 4

\* C18: entry k of the time column is the instant of entry k of the canonical
\* sampleTimes, read as UTC with or without a zone suffix, written as Halifax
\* civil time with offset -3 in daylight time and -4 otherwise; the instant
\* 2024-06-01T12:00Z is written as 09:00 of 1 June.
C18_HalifaxCivilTime ==
    Built =>
        /\ Len(Column(df, TIME_COLUMN)) = CanonicalT(arg)
        /\ \A k \in 1..CanonicalT(arg) :
             LET cell == Column(df, TIME_COLUMN)[k]
                 utc == CanonicalTimes(arg)[k]
             IN /\ InstantOf(cell) = utc
                /\ OffsetOf(cell) = ClaimedOffset(utc)
                /\ CivilOf(cell) = utc + ClaimedOffset(utc)
                /\ utc = JuneNoon =>
                     /\ CivilOf(cell) % 24 = 9
                     /\ CivilOf(cell) \div 24 = 31 + 29 + 31 + 30 + 31

\* a table built from zone-naive timestamps: noon UTC of 1 June, then the
\* first hour after the return to standard time
C18_Witness ==
    /\ Built
    /\ ~PrimaryOf(arg)[1].zoned
    /\ CanonicalTimes(arg) = << JuneNoon, DstEnd >>
    /\ CivilOf(Column(df, TIME_COLUMN)[1]) % 24 = 9
    /\ OffsetOf(Column(df, TIME_COLUMN)[2]) = 0 - 4

---------------------------------------------------------------------------
(* The order of the columns *)

\* blocks of three channels, each with sampleTimes and a short or a full
\* values array
OrderShapes ==
    Shapes({ "ok" }, { "Temperature", "Turbidity", "Chlorophyll" }, { MaxT }, { 1, MaxT })

\* payloads long enough for a name to come back after another name
InitOrder ==
    /\ \E n \in 1..(MaxBlocks + 1) : \E shapes \in [ 1..n -> OrderShapes ] :
          \/ data = Payload(BlockList(shapes, 0))
          \/ data = WithChlorophyll(
                       Payload(BlockList(shapes, 0)),
                       << Block(SupplementalOffset, "Chlorophyll", Absent, MaxLen) >>)
    /\ arg = data
    /\ Idle
    /\ pc = "call"

SpecOrder == InitOrder /\ [][NextNorm]_vars

\* the names of the columns, first to last
ColumnNames(t) == [ c \in DOMAIN t |-> t[c].name ]

\* positions of the primary blocks with values whose name did not occur before
FirstAppearances(p) ==
    SelectSeq([ i \in DOMAIN PrimaryOf(p) |-> i ],
              LAMBDA i : /\ CarriesValues(PrimaryOf(p)[i])
                         /\ \A j \in 1..(i - 1) :
                               ~(/\ CarriesValues(PrimaryOf(p)[j])
                                 /\ PrimaryOf(p)[j].sensorName = PrimaryOf(p)[i].sensorName))

ClaimedOrder(p) ==
    << TIME_COLUMN >>
    \o [ k \in DOMAIN FirstAppearances(p) |-> PrimaryOf(p)[FirstAppearances(p)[k]].sensorName ]
    \o (IF ChlorophyllSuppliers(p) # {} /\ PrimarySuppliers(p, "Chlorophyll") = {}
        THEN << "Chlorophyll" >> ELSE << >>)
    \o SelectSeq(expected_sensors, LAMBDA n : ~Supplied(p, n))

\* names that two or more primary blocks with values carry
SharedNames(p) ==
    { n \in Columns(df) : Cardinality(PrimarySuppliers(p, n)) >= 2 }

\* C19 as stated: the columns are the timestamp column, the primary channels
\* in order of first appearance, Chlorophyll if the supplemental payload
\* introduced it, then the missing registry names in registry order; a name
\* shared by primary blocks holds the aligned values of the last of them.
C19_ColumnOrder ==
    Built =>
        /\ ColumnNames(df) = ClaimedOrder(arg)
        /\ \A n \in SharedNames(arg) :
              ColumnIs(n, PrimaryOf(arg)[Last(PrimarySuppliers(arg, n))].values)

\* C19 amended: the same order; a name shared by primary blocks holds the
\* aligned values of the block written last under it, which for Chlorophyll
\* is the last supplemental Chlorophyll block with values when there is one.
C19_ColumnOrderLastWriter ==
    Built =>
        /\ ColumnNames(df) = ClaimedOrder(arg)
        /\ \A n \in SharedNames(arg) : ColumnIs(n, LastSupplied(arg, n))

\* Temperature comes back after Turbidity with other values: its column stays
\* in front of Turbidity and holds the values of the third block
C19_Witness ==
    /\ Built
    /\ Len(PrimaryOf(arg)) = 3
    /\ PrimaryOf(arg)[1].sensorName = "Temperature"
    /\ PrimaryOf(arg)[2].sensorName = "Turbidity"
    /\ PrimaryOf(arg)[3].sensorName = "Temperature"
    /\ PrimaryOf(arg)[1].values # PrimaryOf(arg)[3].values
    /\ df[2].name = "Temperature"
    /\ df[3].name = "Turbidity"
    /\ ColumnIs("Temperature", PrimaryOf(arg)[3].values)
    /\ ~ColumnIs("Temperature", PrimaryOf(arg)[1].values)

---------------------------------------------------------------------------
(* Claims about the supplemental request *)

\* the primary instrument answered 200, so the fluorometer was asked
SupplementalAsked ==
    /\ Fetched
    /\ Len(requests) = 2
    /\ ~upstream.primary.raises
    /\ upstream.primary.status = 200

\* the fluorometer answered 200 with a sensorData list that has entries
SupplementalUsable ==
    /\ ~upstream.supplemental.raises
    /\ upstream.supplemental.status = 200
    /\ upstream.supplemental.json.sensorDataKind = "list"
    /\ upstream.supplemental.json.sensorData # << >>

\* C20: after a 200 answer of the primary instrument fetch_data returns, with
\* no exception, the primary payload: with the key chlorophyll holding the
\* fluorometer's answer when that answer is 200 with a non-empty sensorData
\* list, and without the key when the request raised, was refused, or gave
\* no or an empty sensorData.
C20_SupplementalFailureIsAbsorbed ==
    SupplementalAsked =>
        /\ ~raised
        /\ pc = "fetched"
        /\ PrimaryOf(data) = PrimaryOf(upstream.primary.json)
        /\ data.sensorDataKind = upstream.primary.json.sensorDataKind
        /\ data.hasChl = SupplementalUsable
        /\ data.hasChl => SupplementalOf(data) = upstream.supplemental.json.sensorData
        /\ ~data.hasChl => data = upstream.primary.json

\* the request to the fluorometer raised and the Temperature payload of the
\* primary instrument was returned as it came
C20_Witness ==
    /\ pc = "fetched"
    /\ upstream.supplemental.raises
    /\ upstream.primary.status = 200
    /\ PrimaryOf(data) # << >>
    /\ data = upstream.primary.json
    /\ ~data.hasChl
    /\ Len(requests) = 2

---------------------------------------------------------------------------
(* Claims about the payload after the call *)

\* the values arrays of a list of blocks, in order
ValuesOf(blocks) == [ i \in DOMAIN blocks |-> blocks[i].values ]

\* C21 as stated: after process_api_data has returned, every values array of
\* the primary and of the supplemental payload has the length and the entries
\* it had before the call, whether it was padded or truncated for its column.
C21_PayloadUnchanged ==
    Done =>
        /\ ValuesOf(PrimaryOf(data)) = ValuesOf(PrimaryOf(arg))
        /\ ValuesOf(SupplementalOf(data)) = ValuesOf(SupplementalOf(arg))

---------------------------------------------------------------------------
(* Claims about the migration page *)

\* the rows of a table, first to last, each as the tuple of its cells
Rows(t) == [ i \in 1..NumRows(t) |-> [ c \in DOMAIN t |-> t[c].cells[i] ] ]

\* the cell of a row under a column name
CellOf(t, row, n) == row[CHOOSE c \in DOMAIN t : t[c].name = n]

\* the rows of t with a value under every one of the names
RowsWith(t, rows, names) ==
    SelectSeq(rows, LAMBDA row : \A n \in names : CellOf(t, row, n) # Null)

\* rows with Chlorophyll, pH and Temperature, and of these, unless there are
\* none, the rows with Oxygen
ClaimedKept(t) ==
    LET fed == RowsWith(t, Rows(t),
                        { "Chlorophyll", "External pH (Dynamic Salinity)", "Temperature" })
    IN IF fed # << >>
       THEN RowsWith(t, fed, { "Oxygen Concentration Corrected" })
       ELSE fed

\* no row of the table has a Chlorophyll value
WithoutChlorophyll(t) ==
    t = << >> \/ \A i \in 1..NumRows(t) : Column(t, "Chlorophyll")[i] = Null

MigrationRender == RenderStep /\ page = "Humpback Migration"

\* C22: drawing the Humpback Migration page for a table with rows replaces the
\* session table by its rows, in order and with the same columns, that have
\* Chlorophyll, pH and Temperature, and of these, if any, those that have
\* Oxygen; no step other than a fetch adds a row; a table without any
\* Chlorophyll value is empty after the page is drawn.
C22_MigrationPageFilters ==
    [][/\ (MigrationRender /\ ~IsEmpty(df)) =>
             /\ ColumnNames(df') = ColumnNames(df)
             /\ Rows(df') = ClaimedKept(df)
       /\ ~FetchStep => NumRows(df') <= NumRows(df)
       /\ (MigrationRender /\ WithoutChlorophyll(df)) => IsEmpty(df')]_vars

\* the page was drawn for a fetched table of several rows; the last row had no
\* Oxygen reading and is gone, the rows before it stay
C22_Witness ==
    /\ pc = "idle"
    /\ ~raised
    /\ page = "Humpback Migration"
    /\ NumRows(ProcessApiData(arg).df) = MaxT
    /\ NumRows(df) = MaxT - 1
    /\ Rows(df) = SubSeq(Rows(ProcessApiData(arg).df), 1, MaxT - 1)

---------------------------------------------------------------------------
(* Claims about the fetch triggers *)

\* the script run has ended, after its page or at an exception
RunEnded == pc = "idle"

\* the fetches of a run: the default window in the first run of a session,
\* the selected window in a run started by the button, none otherwise
ClaimedFetches ==
    IF runs = 0 THEN << "Past 10 Minutes" >>
    ELSE IF clicked THEN << option >>
    ELSE << >>

\* C23 as stated: the first script run of a session fetches once, with Past 10
\* Minutes; a run in which Fetch Data was clicked fetches once, with the
\* selected range; any other rerun issues no request and calls no fetch.
C23_FetchOnlyOnTrigger ==
    RunEnded =>
        /\ fetches = ClaimedFetches
        /\ fetches = << >> => requests = << >>

====
